---- MODULE Spec2Model ----
(***************************************************************************)
(* Model of the filesystem commands of the AGENTVBX desktop backend        *)
(* (packages/desktop/src-tauri/src/lib.rs): guess_mime, read_text_file,    *)
(* list_directory, walkdir_scan / scan_for_obsidian, count_markdown_files  *)
(* and discover_obsidian_vaults.                                           *)
(*                                                                         *)
(* The filesystem is a sequence of entries in on-disk (creation) order;    *)
(* read_dir returns the children of a directory in that order.  Paths are  *)
(* strings, built and taken apart as std::path does it.  Symbolic links,   *)
(* ".." components and non-UTF-8 names are outside the model.              *)
(***************************************************************************)
EXTENDS Integers, Sequences, FiniteSets, TLC

VARIABLES fs, home, call

vars == <<fs, home, call>>

(***************************************************************************)
(* Strings                                                                 *)
(***************************************************************************)

\* The characters of the model in ASCII order; str::cmp compares bytes.
CharOrder == "./0123456789ABCDEFGHIJKLMNOPQRSTUVWXYZ_abcdefghijklmnopqrstuvwxyz"

UpperChars == "ABCDEFGHIJKLMNOPQRSTUVWXYZ"

LowerChars == "abcdefghijklmnopqrstuvwxyz"

CharAt(s, i) == SubSeq(s, i, i)

Rank(c) == CHOOSE i \in 1..Len(CharOrder) : CharAt(CharOrder, i) = c

IsUpper(c) == \E i \in 1..Len(UpperChars) : CharAt(UpperChars, i) = c

LowerChar(c) ==
    IF IsUpper(c)
    THEN CharAt(LowerChars, CHOOSE i \in 1..Len(UpperChars) : CharAt(UpperChars, i) = c)
    ELSE c

RECURSIVE to_lowercase(_)
to_lowercase(s) ==
    IF s = "" THEN "" ELSE LowerChar(Head(s)) \o to_lowercase(Tail(s))

\* str::starts_with('.')
starts_with_dot(s) == s # "" /\ Head(s) = "."

HasDot(s) == \E i \in 1..Len(s) : CharAt(s, i) = "."

\* -1, 0 or 1: Ord::cmp on two strings, byte by byte, a proper prefix first.
RECURSIVE str_cmp(_, _)
str_cmp(a, b) ==
    IF a = "" /\ b = "" THEN 0
    ELSE IF a = "" THEN -1
    ELSE IF b = "" THEN 1
    ELSE IF Rank(Head(a)) < Rank(Head(b)) THEN -1
    ELSE IF Rank(Head(a)) > Rank(Head(b)) THEN 1
    ELSE str_cmp(Tail(a), Tail(b))

\* The text after the last '.', the whole text when there is none:
\* the first item of str::rsplit('.').
RECURSIVE rsplit_first(_)
rsplit_first(s) ==
    IF s = "" THEN ""
    ELSE LET n == Len(s)
             c == CharAt(s, n)
         IN  IF c = "." THEN "" ELSE rsplit_first(SubSeq(s, 1, n - 1)) \o c

\* The text before the last '.'; called only on a text with a '.'.
RECURSIVE before_last_dot(_)
before_last_dot(s) ==
    IF s = "" THEN ""
    ELSE LET n == Len(s)
         IN  IF CharAt(s, n) = "." THEN SubSeq(s, 1, n - 1)
             ELSE before_last_dot(SubSeq(s, 1, n - 1))

(***************************************************************************)
(* guess_mime                                                              *)
(***************************************************************************)

OctetStream == "application/octet-stream"

\* The match table of guess_mime.
MimeTable(ext) ==
    CASE ext = "md" -> "text/markdown"
      [] ext = "txt" -> "text/plain"
      [] ext = "json" -> "application/json"
      [] ext \in {"yaml", "yml"} -> "text/yaml"
      [] ext = "csv" -> "text/csv"
      [] ext = "pdf" -> "application/pdf"
      [] ext = "png" -> "image/png"
      [] ext \in {"jpg", "jpeg"} -> "image/jpeg"
      [] ext = "gif" -> "image/gif"
      [] ext = "svg" -> "image/svg+xml"
      [] ext = "mp4" -> "video/mp4"
      [] ext = "mp3" -> "audio/mpeg"
      [] ext \in {"doc", "docx"} -> "application/msword"
      [] ext \in {"xls", "xlsx"} -> "application/vnd.ms-excel"
      [] ext = "pptx" -> "application/vnd.ms-powerpoint"
      [] ext = "html" -> "text/html"
      [] ext = "js" -> "text/javascript"
      [] ext = "ts" -> "text/typescript"
      [] ext = "py" -> "text/x-python"
      [] ext = "rs" -> "text/x-rust"
      [] ext = "go" -> "text/x-go"
      [] OTHER -> OctetStream

guess_mime(filename) == MimeTable(to_lowercase(rsplit_first(filename)))

(***************************************************************************)
(* Paths (std::path) and the filesystem                                    *)
(***************************************************************************)

\* The pieces of a text between its '/' characters.
RECURSIVE Split(_)
Split(s) ==
    IF s = "" THEN <<"">>
    ELSE LET n == Len(s)
             rest == Split(SubSeq(s, 1, n - 1))
         IN  IF CharAt(s, n) = "/" THEN Append(rest, "")
             ELSE [rest EXCEPT ![Len(rest)] = @ \o CharAt(s, n)]

IsNormal(piece) == piece # "" /\ piece # "."

\* The normal components of a path: repeated and trailing separators and
\* "." components name nothing.  The working directory is "/".
Components(s) == SelectSeq(Split(s), IsNormal)

ends_with_sep(s) == s # "" /\ CharAt(s, Len(s)) = "/"

\* Path::join with a relative name (PathBuf::push): a separator is added
\* only when the path does not already end with one.
join(s, name) ==
    IF s = "" \/ ends_with_sep(s) THEN s \o name ELSE s \o "/" \o name

\* Path::file_name as an option: <<>> is None.
file_name(s) ==
    LET c == Components(s) IN IF c = <<>> THEN <<>> ELSE <<c[Len(c)]>>

\* Path::extension as an option: None without a '.', and for a name whose
\* only '.' is its first character.
extension(s) ==
    LET f == file_name(s)
    IN  IF f = <<>> \/ ~HasDot(f[1]) THEN <<>>
        ELSE IF before_last_dot(f[1]) = "" THEN <<>>
        ELSE <<rsplit_first(f[1])>>

\* The top directory "/" always exists, is a directory and is readable.
TopEntry == [path |-> <<>>, kind |-> "dir", readable |-> TRUE, size |-> 0, utf8 |-> FALSE]

Present(node) == node = <<>> \/ \E i \in 1..Len(fs) : fs[i].path = node

Lookup(node) ==
    IF node = <<>> THEN TopEntry
    ELSE fs[CHOOSE i \in 1..Len(fs) : fs[i].path = node]

exists(s) == Present(Components(s))

is_dir(s) == exists(s) /\ Lookup(Components(s)).kind = "dir"

is_file(s) == exists(s) /\ Lookup(Components(s)).kind = "file"

metadata_len(s) == Lookup(Components(s)).size

\* fs::read_dir succeeds on a readable directory.
read_dir_ok(s) == is_dir(s) /\ Lookup(Components(s)).readable

IsChildOf(node, parent) ==
    Len(node) = Len(parent) + 1 /\ SubSeq(node, 1, Len(parent)) = parent

Named(e) == e.path[Len(e.path)]

\* The entries fs::read_dir yields, in on-disk order; DirEntry::path is
\* the path given to read_dir joined with the entry's name.
read_dir(s) ==
    LET parent == Components(s)
        kids == SelectSeq(fs, LAMBDA e : IsChildOf(e.path, parent))
    IN  [i \in 1..Len(kids) |->
            [name |-> Named(kids[i]),
             path |-> join(s, Named(kids[i])),
             is_dir |-> kids[i].kind = "dir",
             size |-> kids[i].size]]

NoCall == [op |-> "none"]

Parent(node) == SubSeq(node, 1, Len(node) - 1)

\* Entries the environment may create.
Dir(node) == [path |-> node, kind |-> "dir", readable |-> TRUE, size |-> 0, utf8 |-> FALSE]

UnreadableDir(node) == [Dir(node) EXCEPT !.readable = FALSE]

File(node, size, utf8) ==
    [path |-> node, kind |-> "file", readable |-> TRUE, size |-> size, utf8 |-> utf8]

\* The environment creates one file or directory, one of the candidates,
\* in a directory that exists.
Create(candidates, maxNodes) ==
    /\ Len(fs) < maxNodes
    /\ \E e \in candidates :
          /\ ~Present(e.path)
          /\ Present(Parent(e.path)) /\ Lookup(Parent(e.path)).kind = "dir"
          /\ fs' = Append(fs, e)
    /\ call' = NoCall
    /\ UNCHANGED home

(***************************************************************************)
(* guess_mime as a command                                                 *)
(***************************************************************************)

MimeAlphabet == {".", "m", "d", "M", "D", "t", "s"}

MaxNameLen == 3

RECURSIVE Words(_)
Words(n) ==
    IF n = 0 THEN {""}
    ELSE Words(n - 1) \cup {w \o c : w \in Words(n - 1), c \in MimeAlphabet}

MimeSamples ==
    {"report.MD", "report.md", "md", "json", "notes.txt", "a.tar.JSON", "Makefile", ".md"}

GuessMime ==
    /\ \E f \in Words(MaxNameLen) \cup MimeSamples :
          call' = [op |-> "guess_mime", filename |-> f, mime |-> guess_mime(f)]
    /\ UNCHANGED <<fs, home>>

InitMime == fs = <<>> /\ home = "/h" /\ call = NoCall

NextMime == GuessMime

SpecMime == InitMime /\ [][NextMime]_vars

\* C3: classify returns the label of the lower-cased text after the last
\* '.', and the generic label when the name has no '.' at all or the
\* extension is not in the table.
C3_ClassifyByExtension ==
    call.op = "guess_mime" =>
        call.mime = IF HasDot(call.filename)
                    THEN MimeTable(to_lowercase(rsplit_first(call.filename)))
                    ELSE OctetStream

(***************************************************************************)
(* read_text_file                                                          *)
(***************************************************************************)

\* The size cap of read_text_file, in bytes.
MaxTextBytes == 10 * 1024 * 1024

ErrNotFound == "File not found"

ErrTooLarge == "File too large (>10MB)"

ErrIo == "io error"

\* Mutant: a file of exactly the cap is refused too.
over_cap_inclusive(len) == len >= MaxTextBytes

\* The size test of read_text_file.
over_cap(len) == len > MaxTextBytes

\* fs::read_to_string succeeds on a readable regular file of valid UTF-8.
read_to_string_ok(s) ==
    is_file(s) /\ Lookup(Components(s)).readable /\ Lookup(Components(s)).utf8

read_text_file(path) ==
    IF ~exists(path) THEN [ok |-> FALSE, err |-> ErrNotFound]
    ELSE IF over_cap(metadata_len(path)) THEN [ok |-> FALSE, err |-> ErrTooLarge]
    ELSE IF ~read_to_string_ok(path) THEN [ok |-> FALSE, err |-> ErrIo]
    ELSE [ok |-> TRUE, err |-> ""]

ReadNames == {"a.txt", "b.md", "c"}

ReadSizes == {0, MaxTextBytes - 1, MaxTextBytes, MaxTextBytes + 1, 2 * MaxTextBytes}

MaxReadNodes == 2

ReadPaths == {"/" \o n : n \in ReadNames} \cup {"/", "c/a.txt", "/c/a.txt"}

ReadCandidates ==
    {Dir(<<"c">>)} \cup
    {File(node, sz, u) : node \in {<<n>> : n \in ReadNames} \cup {<<"c", "a.txt">>},
                         sz \in ReadSizes, u \in BOOLEAN}

CreateForRead == Create(ReadCandidates, MaxReadNodes)

ReadTextFile ==
    /\ \E p \in ReadPaths :
          call' = [op |-> "read_text_file", path |-> p,
                   existed |-> exists(p),
                   len |-> IF exists(p) THEN metadata_len(p) ELSE 0,
                   result |-> read_text_file(p)]
    /\ UNCHANGED <<fs, home>>

InitRead == fs = <<>> /\ home = "/h" /\ call = NoCall

NextRead == CreateForRead \/ ReadTextFile

SpecRead == InitRead /\ [][NextRead]_vars

IsTooLarge(r) == ~r.ok /\ r.err = ErrTooLarge

\* C2 as stated: TooLarge for every existing file of 10*1024*1024 bytes or
\* more, and never for a file of 10*1024*1024-1 bytes or fewer.
C2_TooLargeFromCap ==
    (call.op = "read_text_file" /\ call.existed) =>
        (IsTooLarge(call.result) <=> call.len >= 10 * 1024 * 1024)

\* C2 amended: TooLarge for every existing file of more than 10*1024*1024
\* bytes, and never for a file of 10*1024*1024 bytes or fewer; a missing
\* file is never TooLarge.
C2_TooLargeAboveCap ==
    call.op = "read_text_file" =>
        (IsTooLarge(call.result) <=> (call.existed /\ call.len >= 10 * 1024 * 1024 + 1))

\* A file of exactly the cap was read and was not refused as too large.
C2_Witness ==
    /\ call.op = "read_text_file"
    /\ call.existed
    /\ call.len = 10 * 1024 * 1024
    /\ call.result.ok

(***************************************************************************)
(* list_directory                                                          *)
(***************************************************************************)

ErrDirNotFound == "Directory not found"

ErrNotADirectory == "Not a directory"

\* Mutant: the names are compared without lower-casing them.
entry_cmp_case_sensitive(a, b) ==
    IF a.is_directory # b.is_directory
    THEN (IF a.is_directory THEN -1 ELSE 1)
    ELSE str_cmp(a.name, b.name)

\* The comparator of entries.sort_by: directories first, then the
\* lower-cased names in byte order.  -1, 0 or 1.
entry_cmp(a, b) ==
    IF a.is_directory # b.is_directory
    THEN (IF a.is_directory THEN -1 ELSE 1)
    ELSE str_cmp(to_lowercase(a.name), to_lowercase(b.name))

\* slice::sort_by is stable: an entry goes after every entry that does not
\* compare greater.
RECURSIVE insert_entry(_, _)
insert_entry(sorted, e) ==
    IF sorted = <<>> THEN <<e>>
    ELSE IF entry_cmp(sorted[Len(sorted)], e) <= 0 THEN Append(sorted, e)
    ELSE Append(insert_entry(SubSeq(sorted, 1, Len(sorted) - 1), e), sorted[Len(sorted)])

RECURSIVE sort_entries(_)
sort_entries(entries) ==
    IF entries = <<>> THEN <<>>
    ELSE insert_entry(sort_entries(SubSeq(entries, 1, Len(entries) - 1)),
                      entries[Len(entries)])

\* The skip of hidden names in the loop of list_directory.
list_skips(name) == starts_with_dot(name)

\* The FileEntry pushed for one directory entry (modified_at, a timestamp,
\* is not modelled).
file_entry(d) ==
    [path |-> d.path, name |-> d.name, is_directory |-> d.is_dir,
     size_bytes |-> d.size, mime_type |-> guess_mime(d.name)]

list_directory(path) ==
    IF ~exists(path) THEN [ok |-> FALSE, err |-> ErrDirNotFound, entries |-> <<>>]
    ELSE IF ~is_dir(path) THEN [ok |-> FALSE, err |-> ErrNotADirectory, entries |-> <<>>]
    ELSE IF ~read_dir_ok(path) THEN [ok |-> FALSE, err |-> ErrIo, entries |-> <<>>]
    ELSE LET all == read_dir(path)
             kept == SelectSeq(all, LAMBDA d : ~list_skips(d.name))
         IN  [ok |-> TRUE, err |-> "",
              entries |-> sort_entries([i \in 1..Len(kept) |-> file_entry(kept[i])])]

ListNames == {"a", "B", "b", ".h"}

MaxListNodes == 4

ListPaths == {"/", "/a"}

ListCandidates ==
    UNION {{Dir(<<n>>), UnreadableDir(<<n>>), File(<<n>>, 0, TRUE)} : n \in ListNames}

CreateForList == Create(ListCandidates, MaxListNodes)

\* One call of list_directory; previous remembers the result of the call
\* before it when that call listed the same path of the same filesystem.
ListDirectory ==
    /\ \E p \in ListPaths :
          call' = [op |-> "list_directory", path |-> p,
                   result |-> list_directory(p),
                   previous |-> IF call.op = "list_directory" /\ call.path = p
                                THEN <<call.result>> ELSE <<>>]
    /\ UNCHANGED <<fs, home>>

InitList == fs = <<>> /\ home = "/h" /\ call = NoCall

NextList == CreateForList \/ ListDirectory

SpecList == InitList /\ [][NextList]_vars

too_deep_late(depth, max_depth) == depth > max_depth + 1

\* The depth test that opens scan_for_obsidian.
too_deep(depth, max_depth) == depth > max_depth

\* The names scan_for_obsidian does not descend into.
denied(name) ==
    \/ starts_with_dot(name)
    \/ name = "node_modules"
    \/ name = "Library"
    \/ name = ".Trash"
    \/ name = "dist"
    \/ name = "target"

\* The name test of scan_for_obsidian; a path without a file name (".",
\* "/") passes it.
skip_dir(dir) == file_name(dir) # <<>> /\ denied(file_name(dir)[1])

\* Mutant: the name test is made before the marker test.
is_vault_unless_denied(dir) ==
    ~skip_dir(dir) /\ exists(join(dir, ".obsidian")) /\ is_dir(join(dir, ".obsidian"))

\* A directory is a vault when it directly holds a directory ".obsidian".
is_vault(dir) == exists(join(dir, ".obsidian")) /\ is_dir(join(dir, ".obsidian"))

\* vaults is the Vec the scan fills; inspected records, for the properties
\* below, every directory whose marker the scan looked for.
NoVaults == [vaults |-> <<>>, inspected |-> {}]

RECURSIVE scan_for_obsidian(_, _, _, _), scan_entries(_, _, _, _)

\* Mutant: the vault is pushed and the scan goes on inside it.
on_vault_descend(dir, depth, max_depth, acc) ==
    LET pushed == [acc EXCEPT !.vaults = Append(@, dir)]
    IN  IF read_dir_ok(dir) THEN scan_entries(read_dir(dir), depth, max_depth, pushed)
        ELSE pushed

\* vaults.push(dir); return
on_vault(dir, depth, max_depth, acc) == [acc EXCEPT !.vaults = Append(@, dir)]

scan_for_obsidian(dir, depth, max_depth, acc) ==
    IF too_deep(depth, max_depth) THEN acc
    ELSE LET seen == [acc EXCEPT !.inspected = @ \cup {dir}]
         IN  IF is_vault(dir) THEN on_vault(dir, depth, max_depth, seen)
             ELSE IF skip_dir(dir) THEN seen
             ELSE IF ~read_dir_ok(dir) THEN seen
             ELSE scan_entries(read_dir(dir), depth, max_depth, seen)

\* The loop over the entries of one directory: subdirectories only.
scan_entries(entries, depth, max_depth, acc) ==
    IF entries = <<>> THEN acc
    ELSE LET e == Head(entries)
             next == IF e.is_dir
                     THEN scan_for_obsidian(e.path, depth + 1, max_depth, acc)
                     ELSE acc
         IN  scan_entries(Tail(entries), depth, max_depth, next)

walkdir_scan(root, max_depth) ==
    IF ~exists(root) THEN NoVaults
    ELSE scan_for_obsidian(root, 0, max_depth, NoVaults)

ScanNames == {"v", "target"}

MaxScanNodes == 4

MaxDepthArg == 2

ScanRoots == {"/", "/v", "/target", "/v/", "."}

\* Directories named from ScanNames, two levels deep, each with or without
\* a marker directory; a marker may also be a plain file, and the
\* first-level directories may be unreadable.
ScanDirs == {<<a>> : a \in ScanNames} \cup {<<a, b>> : a \in ScanNames, b \in ScanNames}

ScanCandidates ==
    {Dir(d) : d \in ScanDirs}
    \cup {UnreadableDir(<<a>>) : a \in ScanNames}
    \cup {Dir(Append(d, ".obsidian")) : d \in ScanDirs \cup {<<>>}}
    \cup {File(Append(d, ".obsidian"), 0, TRUE) : d \in ScanDirs \cup {<<>>}}

CreateForScan == Create(ScanCandidates, MaxScanNodes)

\* One call of the scan on the current filesystem; its result stays in
\* call until the filesystem changes.
FindVaults ==
    /\ call = NoCall
    /\ \E root \in ScanRoots, max_depth \in 0..MaxDepthArg :
          call' = [op |-> "find_vaults", root |-> root, max_depth |-> max_depth,
                   result |-> walkdir_scan(root, max_depth)]
    /\ UNCHANGED <<fs, home>>

InitScan == fs = <<>> /\ home = "/h" /\ call = NoCall

NextScan == CreateForScan \/ FindVaults

SpecScan == InitScan /\ [][NextScan]_vars

\* What the properties of the scan are stated in: the filesystem itself,
\* not the scan's own tests.
HasMarker(node) ==
    \E i \in 1..Len(fs) : fs[i].path = Append(node, ".obsidian") /\ fs[i].kind = "dir"

\* The names of path p below the root of the call.
Below(root, p) ==
    SubSeq(Components(p), Len(Components(root)) + 1, Len(Components(p)))

Reported == {call.result.vaults[i] : i \in 1..Len(call.result.vaults)}

\* The subdirectories of node, as paths.
ChildDirs(node) ==
    {fs[i].path : i \in {k \in 1..Len(fs) : IsChildOf(fs[k].path, node) /\ fs[k].kind = "dir"}}

\* Does path q lie strictly inside path p?
StrictlyInside(q, p) ==
    LET cq == Components(q)
        cp == Components(p)
    IN  Len(cp) < Len(cq) /\ SubSeq(cq, 1, Len(cp)) = cp

\* C1 as stated: a non-root directory with a deny-listed name is never
\* reported, and nothing beneath it is reported.
C1_DeniedNeverReported ==
    call.op = "find_vaults" =>
        \A v \in Reported :
            \A k \in 1..Len(Below(call.root, v)) : ~denied(Below(call.root, v)[k])

\* C1 amended: the marker check precedes the deny-list check.  A non-root
\* directory with a deny-listed name that the scan reaches is reported
\* exactly when it directly holds a .obsidian directory, and nothing
\* beneath it is inspected or reported.
C1_DeniedReportedOnlyAsVault ==
    call.op = "find_vaults" =>
        /\ \A d \in call.result.inspected \cup Reported :
              LET below == Below(call.root, d)
              IN  \A k \in 1..(Len(below) - 1) : ~denied(below[k])
        /\ \A d \in call.result.inspected :
              LET below == Below(call.root, d)
              IN  (below # <<>> /\ denied(below[Len(below)])) =>
                      (d \in Reported <=> HasMarker(Components(d)))

\* A non-root directory with a deny-listed name and a marker was reported.
C1_Witness ==
    /\ call.op = "find_vaults"
    /\ \E v \in Reported :
          LET below == Below(call.root, v)
          IN  below # <<>> /\ denied(below[Len(below)]) /\ HasMarker(Components(v))

\* C5: one scan never reports a path that lies strictly inside another
\* path it reports.
C5_NoNestedVaults ==
    call.op = "find_vaults" =>
        \A p \in Reported : \A q \in Reported : ~StrictlyInside(q, p)

\* A vault was reported that holds another vault within the depth bound.
C5_Witness ==
    /\ call.op = "find_vaults"
    /\ \E p \in Reported :
          \E n \in ChildDirs(Components(p)) :
              /\ HasMarker(n)
              /\ Len(n) - Len(Components(call.root)) <= call.max_depth

\* C6: only directories at depth <= max_depth are inspected or reported;
\* the subdirectories of an inspected directory above max_depth that is
\* readable, is no vault and is not skipped by name are inspected, also at
\* exactly max_depth; with max_depth = 0 only the root is inspected and
\* the result is empty or [root].
C6_DepthBound ==
    call.op = "find_vaults" =>
        /\ \A d \in call.result.inspected \cup Reported :
              Len(Below(call.root, d)) <= call.max_depth
        /\ call.max_depth = 0 =>
              /\ call.result.inspected \subseteq {call.root}
              /\ call.result.vaults \in {<<>>, <<call.root>>}
        /\ \A d \in call.result.inspected :
              ( /\ Len(Below(call.root, d)) < call.max_depth
                /\ ~HasMarker(Components(d))
                /\ Lookup(Components(d)).readable
                /\ (file_name(d) = <<>> \/ ~denied(file_name(d)[1])) )
              => \A c \in ChildDirs(Components(d)) :
                     \E x \in call.result.inspected : Components(x) = c

\* A directory at exactly max_depth >= 1 was inspected, and the vault in
\* it, one level deeper, was neither inspected nor reported.
C6_Witness ==
    /\ call.op = "find_vaults"
    /\ call.max_depth >= 1
    /\ \E d \in call.result.inspected :
          /\ Len(Below(call.root, d)) = call.max_depth
          /\ \E c \in ChildDirs(Components(d)) :
                /\ HasMarker(c)
                /\ \A x \in call.result.inspected \cup Reported : Components(x) # c

\* C7 as stated: the root is exempt from the deny-list.  When the root is
\* a readable directory and no vault, every vault directly beneath it
\* (whose own name is not deny-listed) is reported for max_depth >= 1,
\* whatever the root's name.
C7_RootExempt ==
    ( /\ call.op = "find_vaults"
      /\ call.max_depth >= 1
      /\ is_dir(call.root)
      /\ Lookup(Components(call.root)).readable
      /\ ~HasMarker(Components(call.root)) )
    => \A c \in ChildDirs(Components(call.root)) :
           (HasMarker(c) /\ ~denied(c[Len(c)])) =>
               \E v \in Reported : Components(v) = c

(***************************************************************************)
(* count_markdown_files                                                    *)
(***************************************************************************)

\* Mutant: hidden subdirectories are counted too.
count_descends_always(name) == TRUE

\* The name test before the recursive call of count_markdown_files.
count_descends(name) == ~starts_with_dot(name)

RECURSIVE count_markdown_files(_), count_entries(_)

count_markdown_files(vault_path) ==
    IF ~read_dir_ok(vault_path) THEN 0 ELSE count_entries(read_dir(vault_path))

\* The loop over the entries of one directory.
count_entries(entries) ==
    IF entries = <<>> THEN 0
    ELSE LET e == Head(entries)
             here == IF is_file(e.path)
                     THEN (IF extension(e.path) = <<"md">> THEN 1 ELSE 0)
                     ELSE IF is_dir(e.path) /\ file_name(e.path) # <<>>
                                            /\ count_descends(file_name(e.path)[1])
                     THEN count_markdown_files(e.path)
                     ELSE 0
         IN  here + count_entries(Tail(entries))

CountCandidates ==
    { Dir(<<".obsidian">>), File(<<"note1.md">>, 0, TRUE),
      Dir(<<"sub">>), UnreadableDir(<<"sub">>),
      File(<<"sub", "note2.md">>, 0, TRUE), File(<<"sub", "x.MD">>, 0, TRUE),
      Dir(<<"sub", ".trash">>), File(<<"sub", ".trash", "note3.md">>, 0, TRUE),
      File(<<".md">>, 0, TRUE) }

MaxCountNodes == 6

CountRoots == {"/", "/sub", "/sub/.trash"}

CreateForCount == Create(CountCandidates, MaxCountNodes)

\* One call of the count on the current filesystem.
CountMatching ==
    /\ call = NoCall
    /\ \E root \in CountRoots :
          call' = [op |-> "count_matching", root |-> root,
                   result |-> count_markdown_files(root)]
    /\ UNCHANGED <<fs, home>>

InitCount == fs = <<>> /\ home = "/h" /\ call = NoCall

NextCount == CreateForCount \/ CountMatching

SpecCount == InitCount /\ [][NextCount]_vars

\* Is every directory strictly between root and node (node's ancestors
\* below the root) readable and not hidden, and the root readable?
OpenBelow(root, node) ==
    /\ Present(root) /\ Lookup(root).kind = "dir" /\ Lookup(root).readable
    /\ \A n \in (Len(root) + 1)..(Len(node) - 1) :
          /\ ~starts_with_dot(node[n])
          /\ Lookup(SubSeq(node, 1, n)).readable

\* C8: the count is the number of regular files with extension md under
\* the root whose intermediate directories are all readable and not
\* hidden.
C8_CountsVisibleMarkdown ==
    call.op = "count_matching" =>
        LET root == Components(call.root)
            counted == {i \in 1..Len(fs) :
                          /\ fs[i].kind = "file"
                          /\ Len(fs[i].path) > Len(root)
                          /\ SubSeq(fs[i].path, 1, Len(root)) = root
                          /\ extension(Named(fs[i])) = <<"md">>
                          /\ OpenBelow(root, fs[i].path)}
        IN  call.result = Cardinality(counted)

\* The tree root/{.obsidian/, note1.md, sub/note2.md, sub/.trash/note3.md}
\* was counted and the count is 2.
C8_Witness ==
    /\ call.op = "count_matching"
    /\ call.root = "/"
    /\ {fs[i] : i \in 1..Len(fs)} =
          { Dir(<<".obsidian">>), File(<<"note1.md">>, 0, TRUE), Dir(<<"sub">>),
            File(<<"sub", "note2.md">>, 0, TRUE), Dir(<<"sub", ".trash">>),
            File(<<"sub", ".trash", "note3.md">>, 0, TRUE) }
    /\ call.result = 2

(***************************************************************************)
(* discover_obsidian_vaults                                                *)
(***************************************************************************)

\* The depth bound discover_obsidian_vaults passes to walkdir_scan.
DiscoverDepth == 4

\* format!("{}/Documents", home), ..., home.clone()
search_roots(h) ==
    <<h \o "/Documents", h \o "/Desktop", h \o "/Obsidian", h>>

\* The ObsidianVault pushed for one path the scan returned.
obsidian_vault(vault_path) ==
    [name |-> IF file_name(vault_path) = <<>> THEN "" ELSE file_name(vault_path)[1],
     path |-> vault_path,
     note_count |-> count_markdown_files(vault_path)]

\* The body of the loop over the search roots, for one root.
vaults_of_root(root) ==
    IF ~exists(root) THEN <<>>
    ELSE LET found == walkdir_scan(root, DiscoverDepth).vaults
         IN  [i \in 1..Len(found) |-> obsidian_vault(found[i])]

RECURSIVE collect_vaults(_)
collect_vaults(roots) ==
    IF roots = <<>> THEN <<>>
    ELSE vaults_of_root(Head(roots)) \o collect_vaults(Tail(roots))

\* vaults.sort_by(|a, b| a.path.cmp(&b.path)): a stable sort on the path
\* text.
RECURSIVE insert_vault(_, _)
insert_vault(sorted, v) ==
    IF sorted = <<>> THEN <<v>>
    ELSE IF str_cmp(sorted[Len(sorted)].path, v.path) <= 0 THEN Append(sorted, v)
    ELSE Append(insert_vault(SubSeq(sorted, 1, Len(sorted) - 1), v), sorted[Len(sorted)])

RECURSIVE sort_vaults(_)
sort_vaults(vaults) ==
    IF vaults = <<>> THEN <<>>
    ELSE insert_vault(sort_vaults(SubSeq(vaults, 1, Len(vaults) - 1)), vaults[Len(vaults)])

\* vaults.dedup_by(|a, b| a.path == b.path): of consecutive entries with
\* the same path text the first is kept.
RECURSIVE dedup_vaults(_)
dedup_vaults(vaults) ==
    IF Len(vaults) <= 1 THEN vaults
    ELSE LET rest == dedup_vaults(SubSeq(vaults, 1, Len(vaults) - 1))
             v == vaults[Len(vaults)]
         IN  IF rest[Len(rest)].path = v.path THEN rest ELSE Append(rest, v)

discover_obsidian_vaults(h) == dedup_vaults(sort_vaults(collect_vaults(search_roots(h))))

\* Values of HOME: a plain directory, the same with a trailing separator,
\* the root directory, and the fallback of home_dir().
HomeValues == {"/h", "/h/", "/", "."}

DiscoverDirs ==
    {<<"h">>, <<"h", "Documents">>, <<"h", "Obsidian">>, <<"Documents">>, <<"Documents", "v">>}

DiscoverCandidates ==
    {Dir(d) : d \in DiscoverDirs}
    \cup {Dir(Append(d, ".obsidian")) : d \in DiscoverDirs \cup {<<>>}}
    \cup {File(<<"Documents", "n.md">>, 0, TRUE), File(<<"h", "Documents", "n.md">>, 0, TRUE)}

MaxDiscoverNodes == 4

CreateForDiscover == Create(DiscoverCandidates, MaxDiscoverNodes)

\* One call of the discovery on the current filesystem.
Discover ==
    /\ call = NoCall
    /\ call' = [op |-> "discover", result |-> discover_obsidian_vaults(home)]
    /\ UNCHANGED <<fs, home>>

InitDiscover == fs = <<>> /\ home \in HomeValues /\ call = NoCall

NextDiscover == CreateForDiscover \/ Discover

SpecDiscover == InitDiscover /\ [][NextDiscover]_vars

\* C4: the result of discover holds no vault directory twice, also when it
\* is reachable from two overlapping scan roots.
C4_NoDuplicateVaults ==
    call.op = "discover" =>
        \A i, j \in 1..Len(call.result) :
            i # j => Components(call.result[i].path) # Components(call.result[j].path)

\* C10: the result of discover holds no vault that lies strictly inside
\* another vault of the same result.
C10_NoNestedVaultsAcrossRoots ==
    call.op = "discover" =>
        \A i, j \in 1..Len(call.result) :
            ~StrictlyInside(call.result[j].path, call.result[i].path)

\* The path texts of one result of discover are pairwise different and in
\* ascending order.
DiscoverPathTextsUnique ==
    call.op = "discover" =>
        \A i, j \in 1..Len(call.result) :
            i < j => str_cmp(call.result[i].path, call.result[j].path) < 0

====
